---------------------------- MODULE Spec2Model ----------------------------
(***************************************************************************)
(* Model of the Glue transform job (scripts/glue_transform/transform.py):  *)
(* the DataValidator expectation engine, the pseudonymizer, the quality    *)
(* classification and the two transform pipelines run by main().           *)
(*                                                                         *)
(* Data representation.  A column value is an option: Null == <<>> is the  *)
(* SQL NULL and <<x>> a non-null x.  Temperatures, percentages and levels  *)
(* are whole numbers; temperature_f is kept in hundredths of a degree.     *)
(* Timestamps are tuples of characters, so that substring() is computed.   *)
(* A raw JSON object is a record whose DOMAIN is the set of fields the     *)
(* object holds; a DataFrame is [schema, rows] with every row total over   *)
(* the schema.                                                             *)
(***************************************************************************)
EXTENDS Integers, Sequences, FiniteSets, TLC

VARIABLES
    \* ---- DataValidator used on its own (SpecValidator) ----
    vdf,            \* DataValidator.df
    vname,          \* DataValidator.dataset_name
    vresults,       \* DataValidator.results
    vraised,        \* the last add-rule call raised (AnalysisException)
    vlast,          \* the rule of the last add-rule call, <<>> when none
    rules_added,    \* add-rule calls that returned since construction
    vreport,        \* <<>>, or <<report>> returned by the last validate()
    \* ---- the job (Spec) ----
    raw,            \* raw storage per variant: [readable, objects]
    mode,           \* spark.sql.sources.partitionOverwriteMode of the session
    catalogOk,      \* per variant: MSCK REPAIR of its table succeeds
    store,          \* curated storage: path -> rows (each with its date)
    store0,         \* curated storage as it was when this job run started
    registered,     \* catalog: table -> partition keys registered
    mainpc,         \* position of main()
    fpc,            \* per variant: position of its transform function
    raw_df,         \* per variant: local raw_df
    results,        \* per variant: validator.results
    validation_result, \* per variant: <<>> or <<report>>
    curated_df,     \* per variant: the DataFrame handed to the writer
    events,         \* this run's log lines and collaborator calls, in order
    committed,      \* job.commit() was called in this run
    wrote           \* per variant: an earlier run completed its write

vvars == <<vdf, vname, vresults, vraised, vlast, rules_added, vreport>>
jvars == <<raw, mode, catalogOk, store, store0, registered, mainpc, fpc,
           raw_df, results, validation_result, curated_df, events,
           committed, wrote>>
vars == <<vvars, jvars>>

-----------------------------------------------------------------------------
(* Bounds *)

\* rows of a raw dataset
MaxRows == 2
\* add-rule calls on one DataValidator
MaxRules == 2

-----------------------------------------------------------------------------
(* Column values and Spark's three-valued expressions *)

Null == <<>>
Some(x) == <<x>>
IsNull(c) == c = Null
Val(c) == c[1]

Min2(a, b) == IF a < b THEN a ELSE b

\* F.col(c) < k, F.col(c) > k, F.col(c) >= k: NULL when the operand is NULL
ColLt(c, k) == IF IsNull(c) THEN Null ELSE Some(Val(c) < k)
ColGt(c, k) == IF IsNull(c) THEN Null ELSE Some(Val(c) > k)
ColGe(c, k) == IF IsNull(c) THEN Null ELSE Some(Val(c) >= k)
\* isNull() / isNotNull() are never NULL
ColIsNull(c) == Some(IsNull(c))
ColIsNotNull(c) == Some(~IsNull(c))
\* a | b and a & b of Column, Kleene logic
Or3(a, b) ==
    IF a = Some(TRUE) \/ b = Some(TRUE) THEN Some(TRUE)
    ELSE IF IsNull(a) \/ IsNull(b) THEN Null
    ELSE Some(FALSE)
And3(a, b) ==
    IF a = Some(FALSE) \/ b = Some(FALSE) THEN Some(FALSE)
    ELSE IF IsNull(a) \/ IsNull(b) THEN Null
    ELSE Some(TRUE)
\* a filter or a when() branch takes a row only when the condition is TRUE
Holds(cond) == cond = Some(TRUE)

\* F.substring(col, 1, 10)
Substring10(c) ==
    IF IsNull(c) THEN Null ELSE Some(SubSeq(Val(c), 1, Min2(10, Len(Val(c)))))

-----------------------------------------------------------------------------
(* DataFrames *)

EmptyDF == [schema |-> {}, rows |-> <<>>]

\* spark.read.json: the schema is the union of the fields of all objects,
\* a field an object lacks is NULL in its row
read_json(objects) ==
    LET schema == UNION {DOMAIN objects[i] : i \in 1..Len(objects)}
    IN  [schema |-> schema,
         rows |-> [i \in 1..Len(objects) |->
                     [c \in schema |->
                        IF c \in DOMAIN objects[i] THEN objects[i][c]
                        ELSE Null]]]

count(df) == Len(df.rows)
isEmpty(df) == Len(df.rows) = 0
\* a column expression over a column the schema lacks fails analysis
Resolves(df, columns) == columns \subseteq df.schema

\* df.withColumn(name, col), col given by its value on each row
withColumn(df, name, col) ==
    [schema |-> df.schema \cup {name},
     rows |-> [i \in 1..Len(df.rows) |->
                 [c \in df.schema \cup {name} |->
                    IF c = name THEN col[i] ELSE df.rows[i][c]]]]

drop(df, name) ==
    [schema |-> df.schema \ {name},
     rows |-> [i \in 1..Len(df.rows) |->
                 [c \in df.schema \ {name} |-> df.rows[i][c]]]]

\* df.filter(cond).count(), cond given by its value on each row
filter_count(cond) ==
    Cardinality({i \in 1..Len(cond) : Holds(cond[i])})

-----------------------------------------------------------------------------
(* DataValidator *)

ExpectationResult(expectation_type, success, details) ==
    [expectation_type |-> expectation_type, success |-> success,
     details |-> details]

\* self.df.filter(F.col(column).isNull()).count()
not_null_count(df, column) ==
    filter_count([i \in 1..Len(df.rows) |-> ColIsNull(df.rows[i][column])])

expect_column_values_to_not_be_null(df, column) ==
    LET total == count(df)
        nulls == not_null_count(df, column)
    IN  ExpectationResult("expect_column_values_to_not_be_null", nulls = 0,
            [column |-> column, null_count |-> nulls, total_count |-> total])

\* bounds taken exclusive: a value equal to min or max counts as out of range
mutant_out_of_range_count(df, column, min_value, max_value) ==
    filter_count([i \in 1..Len(df.rows) |->
                    Or3(ColLt(df.rows[i][column], min_value + 1),
                        ColGt(df.rows[i][column], max_value - 1))])

\* self.df.filter((F.col(column) < min) | (F.col(column) > max)).count()
out_of_range_count(df, column, min_value, max_value) ==
    filter_count([i \in 1..Len(df.rows) |->
                    Or3(ColLt(df.rows[i][column], min_value),
                        ColGt(df.rows[i][column], max_value))])

expect_column_values_to_be_between(df, column, min_value, max_value) ==
    LET total == count(df)
        out_of_range == out_of_range_count(df, column, min_value, max_value)
    IN  ExpectationResult("expect_column_values_to_be_between",
            out_of_range = 0,
            [column |-> column, min |-> min_value, max |-> max_value,
             out_of_range_count |-> out_of_range, total_count |-> total])

\* the operands of the comparison swapped
mutant_expect_table_row_count_to_be_greater_than(df, value) ==
    ExpectationResult("expect_table_row_count_to_be_greater_than",
        value > count(df),
        [row_count |-> count(df), min_expected |-> value])

\* count = self.df.count(); success = count > value
expect_table_row_count_to_be_greater_than(df, value) ==
    ExpectationResult("expect_table_row_count_to_be_greater_than",
        count(df) > value,
        [row_count |-> count(df), min_expected |-> value])

\* A rule is one add-rule call with its arguments
NotNull(column) == [type |-> "not_null", column |-> column]
Between(column, lo, hi) ==
    [type |-> "between", column |-> column, min |-> lo, max |-> hi]
RowCount(n) == [type |-> "row_count", value |-> n]

\* the call raises when its column does not resolve against the schema
RuleRaises(df, rule) ==
    rule.type \in {"not_null", "between"} /\ ~Resolves(df, {rule.column})

ApplyRule(df, rule) ==
    CASE rule.type = "not_null" ->
            expect_column_values_to_not_be_null(df, rule.column)
      [] rule.type = "between" ->
            expect_column_values_to_be_between(df, rule.column,
                                               rule.min, rule.max)
      [] rule.type = "row_count" ->
            expect_table_row_count_to_be_greater_than(df, rule.value)

\* sum(1 for r in self.results if r.success)
passed_count(rs) ==
    Cardinality({i \in 1..Len(rs) : rs[i].success})

\* success as soon as one expectation passed
mutant_validate(dataset_name, rs) ==
    LET passed == passed_count(rs)
        failed == Len(rs) - passed
    IN  [dataset |-> dataset_name,
         expectations_evaluated |-> Len(rs),
         expectations_passed |-> passed,
         expectations_failed |-> failed,
         success |-> (passed > 0),
         results |-> rs]

validate(dataset_name, rs) ==
    LET passed == passed_count(rs)
        failed == Len(rs) - passed
    IN  [dataset |-> dataset_name,
         expectations_evaluated |-> Len(rs),
         expectations_passed |-> passed,
         expectations_failed |-> failed,
         success |-> (failed = 0),
         results |-> rs]


-----------------------------------------------------------------------------
(* Inputs *)

\* the fields of f that S names
Restrict(f, S) == [c \in S \cap DOMAIN f |-> f[c]]

\* all sequences over S of length at most n
SeqsUpTo(S, n) == UNION {[1..k -> S] : k \in 0..n}

\* Raw objects a DataValidator is tried on: a temperature that is missing,
\* null, below, at and above the bounds the job uses
ValidatorObjects ==
    {Restrict(o, S) :
        o \in [city : {Some("Austin")},
               temperature_c : {Null, Some(-91), Some(-90), Some(-50),
                                Some(60), Some(61)}],
        S \in {{"city", "temperature_c"}, {"city"}}}

\* the add-rule calls tried, with the arguments the job passes
ValidatorRules ==
    {NotNull("city"), NotNull("temperature_c"),
     Between("temperature_c", -90, 60), Between("temperature_c", -50, 60),
     RowCount(0)}

-----------------------------------------------------------------------------
(* Pseudonymization, transforms, writer and catalog *)

\* the dataset variants, one transform function each
Variants == {"weather", "iot"}

\* hashlib.sha256(value.encode("utf-8")).hexdigest(), on the identifiers the
\* raw data of this model holds (ids as generate_sensor_id makes them)
Sha256Hex(value) ==
    CASE value = "sensor-7430d2ddde95" ->
            "3cd56c6c9735efd4de53d1e4b3a1f03fa44a90389c174d12c76bc07990aef766"
      [] value = "sensor-193484d08792" ->
            "d7aed3f49f91ccc520d0efbad420b4128c58b5394bfa05628b56afdc521fc7d4"

pseudonymize_column(value) ==
    IF IsNull(value) THEN Null ELSE Some(Sha256Hex(Val(value)))

\* the data-completeness conditions left out of the PASS branch
mutant_quality_score(r) ==
    IF Holds(ColGe(r.battery_level, 50)) THEN Some("PASS")
    ELSE IF Holds(ColGe(r.battery_level, 20)) THEN Some("WARN")
    ELSE Some("FAIL")

\* F.when(battery >= 50 & temperature, humidity, aqi not null, "PASS")
\*  .when(battery >= 20, "WARN").otherwise("FAIL")
quality_score(r) ==
    IF Holds(And3(And3(And3(ColGe(r.battery_level, 50),
                            ColIsNotNull(r.temperature_c)),
                       ColIsNotNull(r.humidity_pct)),
                  ColIsNotNull(r.aqi)))
    THEN Some("PASS")
    ELSE IF Holds(ColGe(r.battery_level, 20)) THEN Some("WARN")
    ELSE Some("FAIL")

\* F.round((F.col("temperature_c") * 9 / 5) + 32, 2), in hundredths
temperature_f(r) ==
    IF IsNull(r.temperature_c) THEN Null
    ELSE Some(Val(r.temperature_c) * 180 + 3200)

date_of(r) == Substring10(r.timestamp)

\* the columns the weather transform reads
WeatherTransformColumns == {"temperature_c", "timestamp"}

weather_curated(df) ==
    LET with_f == withColumn(df, "temperature_f",
                      [i \in 1..Len(df.rows) |-> temperature_f(df.rows[i])])
    IN  withColumn(with_f, "date",
            [i \in 1..Len(with_f.rows) |-> date_of(with_f.rows[i])])

\* the columns the sensor transform reads
IotTransformColumns ==
    {"sensor_id", "battery_level", "temperature_c", "humidity_pct", "aqi",
     "timestamp"}

\* the hash column added and the identifier column kept
mutant_iot_pseudonymized(df) ==
    withColumn(df, "sensor_id_hash",
        [i \in 1..Len(df.rows) |-> pseudonymize_column(df.rows[i].sensor_id)])

\* .withColumn("sensor_id_hash", pseudonymize_udf(...)).drop("sensor_id")
iot_pseudonymized(df) ==
    drop(withColumn(df, "sensor_id_hash",
             [i \in 1..Len(df.rows) |->
                 pseudonymize_column(df.rows[i].sensor_id)]),
         "sensor_id")

iot_curated(df) ==
    LET hashed == iot_pseudonymized(df)
        scored == withColumn(hashed, "quality_score",
                      [i \in 1..Len(hashed.rows) |->
                          quality_score(hashed.rows[i])])
    IN  withColumn(scored, "date",
            [i \in 1..Len(scored.rows) |-> date_of(scored.rows[i])])

\* the rule sets of the two transform functions, in call order
RuleSet(v) ==
    IF v = "weather"
    THEN <<NotNull("city"), NotNull("timestamp"), NotNull("temperature_c"),
           Between("temperature_c", -90, 60), Between("humidity_pct", 0, 100),
           RowCount(0)>>
    ELSE <<NotNull("sensor_id"), NotNull("city"), NotNull("timestamp"),
           NotNull("temperature_c"), Between("temperature_c", -50, 60),
           Between("humidity_pct", 0, 100), Between("aqi", 0, 500),
           Between("battery_level", 0, 100), RowCount(0)>>

dataset_name(v) == IF v = "weather" THEN "raw_weather" ELSE "raw_iot_sensors"

\* the chained add-rule calls: some call raises
ChainRaises(df, rules) == \E k \in 1..Len(rules) : RuleRaises(df, rules[k])
\* the results of the chained calls when none raises
ChainResults(df, rules) == [k \in 1..Len(rules) |-> ApplyRule(df, rules[k])]

\* one location for both variants
mutant_curated_path(v) ==
    "curated/"

\* the curated location of a variant
curated_path(v) ==
    IF v = "weather" THEN "curated/weather/" ELSE "curated/sensor-readings/"

Paths == {curated_path(v) : v \in Variants}

\* the table a variant repairs
table_name(v) ==
    IF v = "weather" THEN "curated_weather" ELSE "curated_sensor_readings"

Tables == {table_name(v) : v \in Variants}

\* the partition keys of rows
Dates(rows) == {rows[i].date : i \in 1..Len(rows)}

\* new rows added to what the location holds
mutant_parquet_write(m, old, new) ==
    old \o new

\* .write.mode("overwrite").partitionBy("date").parquet(path): the location
\* is emptied first (static), or only the partitions written are (dynamic)
parquet_write(m, old, new) ==
    IF m = "static" THEN new
    ELSE SelectSeq(old, LAMBDA r : r.date \notin Dates(new)) \o new

\* MSCK REPAIR TABLE: the partitions found at the table's location are added
msck_repair(parts, rows) == parts \cup Dates(rows)

-----------------------------------------------------------------------------
(* The job's variables, before main() has started *)

JobIdle ==
    /\ raw = [v \in Variants |-> [readable |-> TRUE, objects |-> <<>>]]
    /\ mode = "static"
    /\ catalogOk = [v \in Variants |-> TRUE]
    /\ store = [p \in Paths |-> <<>>]
    /\ store0 = [p \in Paths |-> <<>>]
    /\ registered = [t \in Tables |-> {}]
    /\ mainpc = "init"
    /\ fpc = [v \in Variants |-> "idle"]
    /\ raw_df = [v \in Variants |-> EmptyDF]
    /\ results = [v \in Variants |-> <<>>]
    /\ validation_result = [v \in Variants |-> <<>>]
    /\ curated_df = [v \in Variants |-> EmptyDF]
    /\ events = <<>>
    /\ committed = FALSE
    /\ wrote = [v \in Variants |-> FALSE]

-----------------------------------------------------------------------------
(* SpecValidator: a DataValidator driven by any sequence of add-rule calls *)

\* DataValidator.__init__ on a dataset read from raw objects
InitValidator ==
    /\ \E objects \in SeqsUpTo(ValidatorObjects, MaxRows) :
          vdf = read_json(objects)
    /\ vname = "raw_weather"
    /\ vresults = <<>>
    /\ vraised = FALSE
    /\ vlast = <<>>
    /\ rules_added = 0
    /\ vreport = <<>>
    /\ JobIdle

\* one add-rule call that returns: the result is appended, self is returned
AddRuleReturns(rule) ==
    /\ Len(vresults) < MaxRules
    /\ ~RuleRaises(vdf, rule)
    /\ vresults' = Append(vresults, ApplyRule(vdf, rule))
    /\ rules_added' = rules_added + 1
    /\ vraised' = FALSE
    /\ vlast' = <<rule>>
    /\ vreport' = <<>>
    /\ UNCHANGED <<jvars, vdf, vname>>

\* one add-rule call whose column does not resolve: the filter raises
\* before anything is appended
AddRuleRaises(rule) ==
    /\ Len(vresults) < MaxRules
    /\ RuleRaises(vdf, rule)
    /\ vraised' = TRUE
    /\ vlast' = <<rule>>
    /\ vreport' = <<>>
    /\ UNCHANGED <<jvars, vdf, vname, vresults, rules_added>>

AddRule ==
    \E rule \in ValidatorRules : AddRuleReturns(rule) \/ AddRuleRaises(rule)

\* validator.validate()
ValidateCall ==
    /\ vreport = <<>>
    /\ vreport' = <<validate(vname, vresults)>>
    /\ UNCHANGED <<jvars, vdf, vname, vresults, vraised, vlast, rules_added>>

NextValidator == AddRule \/ ValidateCall

SpecValidator == InitValidator /\ [][NextValidator]_vars

-----------------------------------------------------------------------------
(* Claims on the DataValidator, checked under SpecValidator *)

\* C5: the report returned by validate(), after any sequence of add-rule
\* calls, has passed + failed = evaluated = number of rules added, and its
\* success is true exactly when nothing failed.
C5_ReportCounts ==
    vreport # <<>> =>
        LET r == vreport[1]
        IN  /\ r.expectations_passed + r.expectations_failed
                 = r.expectations_evaluated
            /\ r.expectations_evaluated = rules_added
            /\ r.expectations_passed >= 0
            /\ r.expectations_failed >= 0
            /\ r.success <=> (r.expectations_failed = 0)

\* a report of two rules, one passed and one failed
C5_Witness ==
    /\ vreport # <<>>
    /\ vreport[1].expectations_passed = 1
    /\ vreport[1].expectations_failed = 1
    /\ ~vreport[1].success

\* the rows of the validator's dataset whose value of column is non-null
\* and below lo or above hi
RowsOutside(column, lo, hi) ==
    {i \in 1..Len(vdf.rows) :
        /\ vdf.rows[i][column] # Null
        /\ \/ vdf.rows[i][column][1] < lo
           \/ vdf.rows[i][column][1] > hi}

\* C7: a between result fails exactly when some record has a non-null value
\* below min or above max; out_of_range_count is the number of such records
\* (null values and values equal to min or max are not among them) and
\* total_count is the size of the dataset.
C7_Between ==
    \A k \in 1..Len(vresults) :
        vresults[k].expectation_type = "expect_column_values_to_be_between" =>
            LET d == vresults[k].details
                outside == RowsOutside(d.column, d.min, d.max)
            IN  /\ vresults[k].success <=> (outside = {})
                /\ d.out_of_range_count = Cardinality(outside)
                /\ d.total_count = Len(vdf.rows)

\* between(temperature_c, -90, 60) over a null value and a value equal to
\* the minimum: both in range
C7_WitnessInRange ==
    /\ Len(vdf.rows) = 2
    /\ "temperature_c" \in vdf.schema
    /\ vdf.rows[1].temperature_c = Null
    /\ vdf.rows[2].temperature_c = Some(-90)
    /\ Len(vresults) > 0
    /\ vresults[1] = expect_column_values_to_be_between(vdf, "temperature_c",
                                                        -90, 60)
    /\ vresults[1].success

\* C8: a not_null or between rule on a column that no record of a non-empty
\* dataset holds does not raise; it returns success = false with every row counted as failing.
C8_MissingColumnTotal ==
    (/\ vlast # <<>>
     /\ vlast[1].type \in {"not_null", "between"}
     /\ Len(vdf.rows) > 0
     /\ vlast[1].column \notin vdf.schema)
    => /\ ~vraised
       /\ Len(vresults) > 0
       /\ LET r == vresults[Len(vresults)]
          IN  /\ ~r.success
              /\ r.details.total_count = Len(vdf.rows)
              /\ IF vlast[1].type = "not_null"
                 THEN r.details.null_count = r.details.total_count
                 ELSE r.details.out_of_range_count = r.details.total_count

-----------------------------------------------------------------------------
(* Raw inputs of the job *)

T_0101_00 ==
    <<"2", "0", "2", "4", "-", "0", "1", "-", "0", "1", "T", "0", "0", ":", "0", "0">>
T_0101_01 ==
    <<"2", "0", "2", "4", "-", "0", "1", "-", "0", "1", "T", "0", "1", ":", "0", "0">>
T_0102_00 ==
    <<"2", "0", "2", "4", "-", "0", "1", "-", "0", "2", "T", "0", "0", ":", "0", "0">>
T_1231_23 ==
    <<"2", "0", "2", "3", "-", "1", "2", "-", "3", "1", "T", "2", "3", ":", "0", "0">>

Id1 == "sensor-7430d2ddde95"
Id2 == "sensor-193484d08792"

\* weather objects: a valid one, one with a temperature above the maximum,
\* one without the humidity_pct field
WeatherPool ==
    << [city |-> Some("Austin"), timestamp |-> Some(T_0101_00),
        temperature_c |-> Some(20), humidity_pct |-> Some(50)],
       [city |-> Some("Austin"), timestamp |-> Some(T_0102_00),
        temperature_c |-> Some(61), humidity_pct |-> Some(50)],
       [city |-> Some("Austin"), timestamp |-> Some(T_0101_01),
        temperature_c |-> Some(20)] >>

\* sensor objects: a valid one, one of the same sensor with an aqi above the
\* maximum, one with a null sensor_id, one without the aqi field
IotPool ==
    << [sensor_id |-> Some(Id1), city |-> Some("Austin"),
        timestamp |-> Some(T_0101_00), temperature_c |-> Some(20),
        humidity_pct |-> Some(50), aqi |-> Some(40),
        battery_level |-> Some(60)],
       [sensor_id |-> Some(Id1), city |-> Some("Austin"),
        timestamp |-> Some(T_0102_00), temperature_c |-> Some(20),
        humidity_pct |-> Some(50), aqi |-> Some(501),
        battery_level |-> Some(30)],
       [sensor_id |-> Null, city |-> Some("Austin"),
        timestamp |-> Some(T_0101_01), temperature_c |-> Some(20),
        humidity_pct |-> Some(50), aqi |-> Some(40),
        battery_level |-> Some(10)],
       [sensor_id |-> Some(Id2), city |-> Some("Austin"),
        timestamp |-> Some(T_0101_00), temperature_c |-> Some(20),
        humidity_pct |-> Some(50), battery_level |-> Some(60)] >>

\* sensor objects over every combination of the fields that the hash and
\* the quality score read
IotObjects ==
    [sensor_id : {Null, Some(Id1), Some(Id2)},
     city : {Some("Austin")},
     timestamp : {Some(T_0101_00)},
     temperature_c : {Null, Some(20)},
     humidity_pct : {Null, Some(50)},
     aqi : {Null, Some(40)},
     battery_level : {Null, Some(19), Some(20), Some(49), Some(50)}]

\* datasets of at most n objects of a pool; the order of the objects of a
\* dataset means nothing, so each is listed in the pool's order
Datasets(pool, n) ==
    UNION {{[i \in 1..k |-> pool[idx[i]]] :
              idx \in {f \in [1..k -> 1..Len(pool)] :
                          \A i \in 1..k : \A j \in 1..k :
                              i < j => f[i] <= f[j]}} :
           k \in 0..n}

Readable(objects) == [readable |-> TRUE, objects |-> objects]
\* a raw path that cannot be read: spark.read.json raises
Unreadable == [readable |-> FALSE, objects |-> <<>>]

\* what an earlier run left at a curated location: nothing, or the output
\* for an older object and for one of a date written again
OldWeather ==
    weather_curated(read_json(
        << [WeatherPool[1] EXCEPT !.timestamp = Some(T_1231_23)],
           [WeatherPool[1] EXCEPT !.temperature_c = Some(10)] >>)).rows
OldIot ==
    iot_curated(read_json(
        << [IotPool[1] EXCEPT !.timestamp = Some(T_1231_23)],
           [IotPool[1] EXCEPT !.battery_level = Some(40)] >>)).rows

-----------------------------------------------------------------------------
(* Spec: the job.  main() runs transform_weather, then                     *)
(* transform_iot_sensors, then commits; the job may be run again on the    *)
(* same raw data.                                                          *)

\* no DataValidator outside the job
ValidatorIdle ==
    /\ vdf = EmptyDF
    /\ vname = ""
    /\ vresults = <<>>
    /\ vraised = FALSE
    /\ vlast = <<>>
    /\ rules_added = 0
    /\ vreport = <<>>

\* small datasets of both variants, under both overwrite modes, over empty
\* and non-empty curated locations
InitPools ==
    /\ \E w \in {Readable(d) : d \in Datasets(WeatherPool, MaxRows)}
                \cup {Unreadable} :
       \E s \in {Readable(d) : d \in Datasets(IotPool, MaxRows)}
                \cup {Unreadable} :
          raw = [v \in Variants |-> IF v = "weather" THEN w ELSE s]
    /\ mode \in {"static", "dynamic"}
    /\ \E ow \in {<<>>, OldWeather} : \E oi \in {<<>>, OldIot} :
          store = [p \in Paths |->
                      IF p = curated_path("weather") THEN ow ELSE oi]

\* one sensor object of any shape beside one valid weather object
InitObjects ==
    /\ \E o \in IotObjects :
          raw = [v \in Variants |->
                    IF v = "weather" THEN Readable(<<WeatherPool[1]>>)
                    ELSE Readable(<<o>>)]
    /\ mode = "static"
    /\ store = [p \in Paths |-> <<>>]

Init ==
    /\ ValidatorIdle
    /\ InitPools \/ InitObjects
    /\ store0 = store
    /\ registered = [t \in Tables |->
                        IF t = table_name("weather")
                        THEN Dates(store[curated_path("weather")])
                        ELSE Dates(store[curated_path("iot")])]
    /\ catalogOk = [v \in Variants |-> TRUE]
    /\ mainpc = "init"
    /\ fpc = [v \in Variants |-> "idle"]
    /\ raw_df = [v \in Variants |-> EmptyDF]
    /\ results = [v \in Variants |-> <<>>]
    /\ validation_result = [v \in Variants |-> <<>>]
    /\ curated_df = [v \in Variants |-> EmptyDF]
    /\ events = <<>>
    /\ committed = FALSE
    /\ wrote = [v \in Variants |-> FALSE]

\* this run's events hold <<v, what>>
Has(v, what) == \E k \in 1..Len(events) : events[k] = <<v, what>>

\* main() up to the first transform call; the catalog the session reaches
\* has each table repairable or not
MainStart ==
    /\ mainpc = "init"
    /\ mainpc' = "weather"
    /\ fpc' = [fpc EXCEPT !["weather"] = "read"]
    /\ store0' = store
    /\ \E ok \in [Variants -> BOOLEAN] : catalogOk' = ok
    /\ UNCHANGED <<vvars, raw, mode, store, registered, raw_df, results,
                   validation_result, curated_df, events, committed, wrote>>

\* the transform function of v returns to main(): main() calls the next
\* transform, or goes on to commit after the last
Returns(v, how) ==
    IF v = "weather"
    THEN /\ mainpc' = "iot"
         /\ fpc' = [fpc EXCEPT !["weather"] = how, !["iot"] = "read"]
    ELSE /\ mainpc' = "commit"
         /\ fpc' = [fpc EXCEPT ![v] = how]

\* an exception leaves the transform function of v and main() uncaught
Raises(v) ==
    /\ mainpc' = "failed"
    /\ fpc' = [fpc EXCEPT ![v] = "raised"]

\* spark.read.json raises: caught, logged, return
ReadFails(v) ==
    /\ mainpc = v /\ fpc[v] = "read"
    /\ ~raw[v].readable
    /\ events' = Append(events, <<v, "read_failed">>)
    /\ Returns(v, "returned")
    /\ UNCHANGED <<vvars, raw, mode, catalogOk, store, store0, registered, raw_df,
                   results, validation_result, curated_df, committed, wrote>>

\* the empty check left out: an empty dataset goes on to validation
mutant_ReadEmpty(v) ==
    /\ mainpc = v /\ fpc[v] = "read"
    /\ raw[v].readable
    /\ isEmpty(read_json(raw[v].objects))
    /\ raw_df' = [raw_df EXCEPT ![v] = read_json(raw[v].objects)]
    /\ fpc' = [fpc EXCEPT ![v] = "validate"]
    /\ UNCHANGED <<vvars, raw, mode, catalogOk, store, store0, registered,
                   mainpc, results, validation_result, curated_df, events,
                   committed, wrote>>

\* raw_df.isEmpty(): warning, return
ReadEmpty(v) ==
    /\ mainpc = v /\ fpc[v] = "read"
    /\ raw[v].readable
    /\ isEmpty(read_json(raw[v].objects))
    /\ raw_df' = [raw_df EXCEPT ![v] = read_json(raw[v].objects)]
    /\ events' = Append(events, <<v, "empty">>)
    /\ Returns(v, "returned")
    /\ UNCHANGED <<vvars, raw, mode, catalogOk, store, store0, registered,
                   results, validation_result, curated_df, committed, wrote>>

ReadOk(v) ==
    /\ mainpc = v /\ fpc[v] = "read"
    /\ raw[v].readable
    /\ ~isEmpty(read_json(raw[v].objects))
    /\ raw_df' = [raw_df EXCEPT ![v] = read_json(raw[v].objects)]
    /\ fpc' = [fpc EXCEPT ![v] = "validate"]
    /\ UNCHANGED <<vvars, raw, mode, catalogOk, store, store0, registered, mainpc,
                   results, validation_result, curated_df, events,
                   committed, wrote>>

\* a chained add-rule call raises: the results before it were appended, no
\* report is made or logged
ValidateRaises(v) ==
    /\ mainpc = v /\ fpc[v] = "validate"
    /\ ChainRaises(raw_df[v], RuleSet(v))
    /\ LET first == CHOOSE k \in 1..Len(RuleSet(v)) :
                       /\ RuleRaises(raw_df[v], RuleSet(v)[k])
                       /\ \A j \in 1..(k - 1) :
                             ~RuleRaises(raw_df[v], RuleSet(v)[j])
       IN  results' = [results EXCEPT ![v] =
                          [k \in 1..(first - 1) |->
                              ApplyRule(raw_df[v], RuleSet(v)[k])]]
    /\ events' = Append(events, <<v, "exception">>)
    /\ Raises(v)
    /\ UNCHANGED <<vvars, raw, mode, catalogOk, store, store0, registered, raw_df,
                   validation_result, curated_df, committed, wrote>>

\* the rule set, validate(), the report logged, and an error line logged
\* when the report's success is false; the function goes on either way
ValidateOk(v) ==
    /\ mainpc = v /\ fpc[v] = "validate"
    /\ ~ChainRaises(raw_df[v], RuleSet(v))
    /\ LET rs == ChainResults(raw_df[v], RuleSet(v))
           report == validate(dataset_name(v), rs)
       IN  /\ results' = [results EXCEPT ![v] = rs]
           /\ validation_result' = [validation_result EXCEPT ![v] = <<report>>]
           /\ events' = events \o <<<<v, "log_report">>>>
                        \o (IF report.success THEN <<>>
                            ELSE <<<<v, "log_validation_failed">>>>)
    /\ fpc' = [fpc EXCEPT ![v] = "transform"]
    /\ UNCHANGED <<vvars, raw, mode, catalogOk, store, store0, registered, mainpc,
                   raw_df, curated_df, committed, wrote>>

\* transform_weather: temperature_f and date added
TransformWeather ==
    /\ mainpc = "weather" /\ fpc["weather"] = "transform"
    /\ IF Resolves(raw_df["weather"], WeatherTransformColumns)
       THEN /\ curated_df' = [curated_df EXCEPT !["weather"] =
                                 weather_curated(raw_df["weather"])]
            /\ fpc' = [fpc EXCEPT !["weather"] = "write"]
            /\ UNCHANGED <<mainpc, events>>
       ELSE /\ events' = Append(events, <<"weather", "exception">>)
            /\ Raises("weather")
            /\ UNCHANGED curated_df
    /\ UNCHANGED <<vvars, raw, mode, catalogOk, store, store0, registered, raw_df,
                   results, validation_result, committed, wrote>>

\* transform_iot_sensors: sensor_id replaced by its hash, quality_score and
\* date added
TransformIot ==
    /\ mainpc = "iot" /\ fpc["iot"] = "transform"
    /\ IF Resolves(raw_df["iot"], IotTransformColumns)
       THEN /\ curated_df' = [curated_df EXCEPT !["iot"] =
                                 iot_curated(raw_df["iot"])]
            /\ fpc' = [fpc EXCEPT !["iot"] = "write"]
            /\ UNCHANGED <<mainpc, events>>
       ELSE /\ events' = Append(events, <<"iot", "exception">>)
            /\ Raises("iot")
            /\ UNCHANGED curated_df
    /\ UNCHANGED <<vvars, raw, mode, catalogOk, store, store0, registered, raw_df,
                   results, validation_result, committed, wrote>>

\* the partitioned write, in overwrite mode, to the variant's curated path
Write(v) ==
    /\ mainpc = v /\ fpc[v] = "write"
    /\ store' = [store EXCEPT ![curated_path(v)] =
                    parquet_write(mode, store[curated_path(v)],
                                  curated_df[v].rows)]
    /\ events' = Append(events, <<v, "write">>)
    /\ fpc' = [fpc EXCEPT ![v] = "msck"]
    /\ UNCHANGED <<vvars, raw, mode, catalogOk, store0, registered, mainpc,
                   raw_df, results, validation_result, curated_df, committed,
                   wrote>>

\* MSCK REPAIR TABLE succeeds: completion logged, return
MsckOk(v) ==
    /\ mainpc = v /\ fpc[v] = "msck"
    /\ catalogOk[v]
    /\ registered' = [registered EXCEPT ![table_name(v)] =
                         msck_repair(registered[table_name(v)],
                                     store[curated_path(v)])]
    /\ events' = events \o <<<<v, "msck">>, <<v, "log_complete">>>>
    /\ Returns(v, "complete")
    /\ UNCHANGED <<vvars, raw, mode, catalogOk, store, store0, raw_df, results,
                   validation_result, curated_df, committed, wrote>>

\* the failure caught and logged inside the transform function
mutant_MsckFails(v) ==
    /\ mainpc = v /\ fpc[v] = "msck"
    /\ ~catalogOk[v]
    /\ events' = Append(events, <<v, "msck_failed">>)
    /\ Returns(v, "complete")
    /\ UNCHANGED <<vvars, raw, mode, catalogOk, store, store0, registered,
                   raw_df, results, validation_result, curated_df, committed,
                   wrote>>

\* MSCK REPAIR TABLE raises: nothing catches it
MsckFails(v) ==
    /\ mainpc = v /\ fpc[v] = "msck"
    /\ ~catalogOk[v]
    /\ events' = Append(events, <<v, "msck_failed">>)
    /\ Raises(v)
    /\ UNCHANGED <<vvars, raw, mode, catalogOk, store, store0, registered, raw_df,
                   results, validation_result, curated_df, committed, wrote>>

\* both transforms returned: job.commit()
Commit ==
    /\ mainpc = "commit"
    /\ mainpc' = "done"
    /\ committed' = TRUE
    /\ events' = Append(events, <<"job", "commit">>)
    /\ UNCHANGED <<vvars, raw, mode, catalogOk, store, store0, registered, fpc,
                   raw_df, results, validation_result, curated_df, wrote>>

\* the job is started again: a new process and session, the same storage
\* and catalog
Rerun ==
    /\ mainpc \in {"done", "failed"}
    /\ mainpc' = "init"
    /\ fpc' = [v \in Variants |-> "idle"]
    /\ raw_df' = [v \in Variants |-> EmptyDF]
    /\ results' = [v \in Variants |-> <<>>]
    /\ validation_result' = [v \in Variants |-> <<>>]
    /\ curated_df' = [v \in Variants |-> EmptyDF]
    /\ events' = <<>>
    /\ committed' = FALSE
    /\ wrote' = [v \in Variants |-> wrote[v] \/ Has(v, "write")]
    /\ UNCHANGED <<vvars, raw, mode, catalogOk, store, store0, registered>>

Next ==
    \/ MainStart
    \/ \E v \in Variants : ReadFails(v)
    \/ \E v \in Variants : ReadEmpty(v)
    \/ \E v \in Variants : ReadOk(v)
    \/ \E v \in Variants : ValidateRaises(v)
    \/ \E v \in Variants : ValidateOk(v)
    \/ TransformWeather
    \/ TransformIot
    \/ \E v \in Variants : Write(v)
    \/ \E v \in Variants : MsckOk(v)
    \/ \E v \in Variants : MsckFails(v)
    \/ Commit
    \/ Rerun

Spec == Init /\ [][Next]_vars

-----------------------------------------------------------------------------
(* Claims on the job, checked under Spec *)

\* the run of v's transform function has ended
Ended(v) == fpc[v] \in {"returned", "complete", "raised"}
\* the job run has ended
JobEnded == mainpc \in {"done", "failed"}
\* the raw data of v is unreadable or holds no record
SoftInput(v) == ~raw[v].readable \/ raw[v].objects = <<>>

\* no add-rule call raised in this job run
NoRuleRaised == \A v \in Variants : ~Has(v, "exception")

\* C1: a run of a transform function whose READ gave a non-empty dataset
\* logs the validation report, then issues the write, then issues the
\* catalog registration, whatever the report says.
C1_ContinueOnFailure ==
    \A v \in Variants :
        (Ended(v) /\ ~SoftInput(v)) =>
            \E i \in 1..Len(events) : \E j \in 1..Len(events) :
            \E k \in 1..Len(events) :
                /\ i < j /\ j < k
                /\ events[i] = <<v, "log_report">>
                /\ events[j] = <<v, "write">>
                /\ events[k] \in {<<v, "msck">>, <<v, "msck_failed">>}

\* C2 as stated: a variant whose raw data is empty or unreadable ends with
\* no write, no registration and no exception, main() runs the next
\* variant, and the job is committed.  Stated of the runs in which no
\* add-rule call raises, so that only the code as intended can refute it.
C2_SoftExitCommits ==
    \A v \in Variants :
        (SoftInput(v) /\ Ended(v) /\ NoRuleRaised) =>
            /\ fpc[v] = "returned"
            /\ ~Has(v, "write") /\ ~Has(v, "msck") /\ ~Has(v, "msck_failed")
            /\ ~Has(v, "exception")
            /\ v = "weather" => fpc["iot"] # "idle"
            /\ mainpc # "failed"
            /\ JobEnded => committed

\* C2 as amended: the same, but the job is committed unless the run of the
\* variant called after v raises; after the last variant main() commits.
C2_SoftExit ==
    \A v \in Variants :
        (SoftInput(v) /\ fpc[v] \notin {"idle", "read"}) =>
            /\ fpc[v] = "returned"
            /\ ~Has(v, "write") /\ ~Has(v, "msck") /\ ~Has(v, "msck_failed")
            /\ ~Has(v, "exception")
            /\ store[curated_path(v)] = store0[curated_path(v)]
            /\ v = "weather" => /\ fpc["iot"] # "idle"
                                /\ mainpc \in {"iot", "commit", "done", "failed"}
                                /\ mainpc = "failed" => fpc["iot"] = "raised"
            /\ v = "iot" => mainpc \in {"commit", "done"}
            /\ mainpc = "done" => committed

\* the weather data was empty, the sensor transform completed, the job is
\* committed
C2_Witness ==
    /\ raw["weather"].readable /\ raw["weather"].objects = <<>>
    /\ fpc["weather"] = "returned"
    /\ fpc["iot"] = "complete"
    /\ mainpc = "done" /\ committed

\* what v's own input decides: whether its run reaches the write, what its
\* curated location then holds, whether its table is repaired
OwnWrites(v) ==
    /\ ~SoftInput(v)
    /\ ~ChainRaises(read_json(raw[v].objects), RuleSet(v))
OwnStore(v) ==
    IF OwnWrites(v)
    THEN parquet_write(mode, store0[curated_path(v)],
            IF v = "weather"
            THEN weather_curated(read_json(raw[v].objects)).rows
            ELSE iot_curated(read_json(raw[v].objects)).rows)
    ELSE store0[curated_path(v)]
OwnRegisters(v) == OwnWrites(v) /\ catalogOk[v]
OwnResult(v) ==
    /\ store[curated_path(v)] = OwnStore(v)
    /\ Has(v, "msck") <=> OwnRegisters(v)
    /\ OwnRegisters(v) =>
          Dates(OwnStore(v)) \subseteq registered[table_name(v)]

C4_RegistrationFatal ==
    \A v \in Variants :
        /\ Has(v, "msck_failed") =>
              /\ fpc[v] = "raised"
              /\ mainpc = "failed"
              /\ ~committed
              /\ ~Has(v, "log_complete")
              /\ ~Has("job", "commit")
              /\ v = "weather" => fpc["iot"] = "idle"
        /\ \A k \in 1..Len(events) :
              events[k] \in {<<v, "msck">>, <<v, "msck_failed">>} =>
                  \E j \in 1..(k - 1) : events[j] = <<v, "write">>

\* the weather registration failed while sensor data was waiting
C4_Witness ==
    /\ Has("weather", "msck_failed")
    /\ Has("weather", "write")
    /\ Len(raw["iot"].objects) > 0
    /\ mainpc = "failed"

\* the classification as the cascade states it, on a raw row
Cascade(r) ==
    IF /\ r.battery_level # Null /\ r.battery_level[1] >= 50
       /\ r.temperature_c # Null /\ r.humidity_pct # Null /\ r.aqi # Null
    THEN "PASS"
    ELSE IF r.battery_level # Null /\ r.battery_level[1] >= 20 THEN "WARN"
    ELSE "FAIL"

\* C6: every record the sensor transform produces carries the quality
\* score of the cascade: PASS iff battery_level >= 50 and temperature_c,
\* humidity_pct and aqi are non-null, else WARN iff battery_level >= 20,
\* else FAIL; a null battery_level gives FAIL.
C6_QualityCascade ==
    LET out == curated_df["iot"].rows
        in == raw_df["iot"].rows
    IN  Len(out) > 0 =>
            /\ Len(out) = Len(in)
            /\ \A i \in 1..Len(out) :
                  /\ out[i].quality_score = Some(Cascade(in[i]))
                  /\ in[i].battery_level = Null =>
                        out[i].quality_score = Some("FAIL")
                  /\ Has("iot", "write") =>
                        \E j \in 1..Len(store[curated_path("iot")]) :
                            store[curated_path("iot")][j] = out[i]

\* a written record with a null battery_level and every other field set
C6_Witness ==
    /\ Has("iot", "write")
    /\ Len(raw_df["iot"].rows) = 1
    /\ raw_df["iot"].rows[1].battery_level = Null
    /\ raw_df["iot"].rows[1].temperature_c # Null
    /\ raw_df["iot"].rows[1].humidity_pct # Null
    /\ raw_df["iot"].rows[1].aqi # Null
    /\ curated_df["iot"].rows[1].quality_score = Some("FAIL")

\* C9: a write of a variant whose earlier run completed its write of the
\* same input leaves the curated location as it was: the second run adds,
\* merges and removes nothing.
C9_WriteIdempotent ==
    [][\A v \in Variants :
          (fpc[v] = "write" /\ fpc'[v] = "msck" /\ wrote[v]) =>
              store'[curated_path(v)] = store[curated_path(v)]]_vars

\* the second write of two sensor records, in dynamic mode, over a location
\* that held older output before the first run
C9_Witness ==
    /\ wrote["iot"]
    /\ Has("iot", "write")
    /\ mode = "dynamic"
    /\ Len(raw["iot"].objects) = 2
    /\ Len(store[curated_path("iot")]) = 3

\* C10: every record the sensor transform writes has no sensor_id field,
\* and its sensor_id_hash is null when the raw identifier is null and else
\* the SHA-256 hex digest of the identifier, so that records of one
\* identifier carry one hash in every run.
C10_Pseudonymized ==
    LET out == curated_df["iot"]
        in == raw_df["iot"].rows
    IN  Len(out.rows) > 0 =>
            /\ "sensor_id" \notin out.schema
            /\ \A i \in 1..Len(out.rows) :
                  /\ "sensor_id" \notin DOMAIN out.rows[i]
                  /\ in[i].sensor_id = Null =>
                        out.rows[i].sensor_id_hash = Null
                  /\ in[i].sensor_id # Null =>
                        out.rows[i].sensor_id_hash
                            = Some(Sha256Hex(in[i].sensor_id[1]))
                  /\ \A j \in 1..Len(out.rows) :
                        in[i].sensor_id = in[j].sensor_id =>
                            out.rows[i].sensor_id_hash
                                = out.rows[j].sensor_id_hash
                  /\ Has("iot", "write") =>
                        \E j \in 1..Len(store[curated_path("iot")]) :
                            store[curated_path("iot")][j] = out.rows[i]
            /\ \A j \in 1..Len(store[curated_path("iot")]) :
                  "sensor_id" \notin DOMAIN store[curated_path("iot")][j]

\* two records of one sensor written in a later run of the job
C10_Witness ==
    /\ wrote["iot"]
    /\ Has("iot", "write")
    /\ Len(raw_df["iot"].rows) = 2
    /\ raw_df["iot"].rows[1].sensor_id = Some(Id1)
    /\ raw_df["iot"].rows[2].sensor_id = Some(Id1)
    /\ curated_df["iot"].rows[1].sensor_id_hash
          = curated_df["iot"].rows[2].sensor_id_hash
    /\ curated_df["iot"].rows[1].sensor_id_hash # Null

\* C11: in every run that reaches VALIDATE the row-count rule of the fixed
\* rule set succeeds, on a dataset of at least one record, so a report the
\* job emits fails only through a not_null or a between result.
C11_RowCountNeverFails ==
    \A v \in Variants :
        /\ fpc[v] \notin {"idle", "read", "returned"} => Len(raw_df[v].rows) > 0
        /\ \A k \in 1..Len(results[v]) :
              results[v][k].expectation_type
                    = "expect_table_row_count_to_be_greater_than" =>
                  /\ results[v][k].success
                  /\ results[v][k].details.row_count > 0
                  /\ results[v][k].details.min_expected = 0
        /\ validation_result[v] # <<>> =>
              LET report == validation_result[v][1]
              IN  /\ report.results = results[v]
                  /\ \E k \in 1..Len(report.results) :
                        report.results[k].expectation_type
                            = "expect_table_row_count_to_be_greater_than"
                  /\ ~report.success =>
                        \E k \in 1..Len(report.results) :
                            /\ ~report.results[k].success
                            /\ report.results[k].expectation_type \in
                                  {"expect_column_values_to_not_be_null",
                                   "expect_column_values_to_be_between"}

\* a failed report of the sensor variant, logged, whose row-count result
\* succeeded
C11_Witness ==
    /\ Has("iot", "log_validation_failed")
    /\ validation_result["iot"] # <<>>
    /\ ~validation_result["iot"][1].success
    /\ validation_result["iot"][1].results[9].expectation_type
          = "expect_table_row_count_to_be_greater_than"
    /\ validation_result["iot"][1].results[9].success

=============================================================================
